---- MODULE Spec2Model ----
(***************************************************************************)
(* The acoustic on-off-keying link: transmitter.py (main), receiver.py     *)
(* (main), test.py (test_transmission) and filters.py (design_*_filter).   *)
(* Every program is a sequential batch script; one run is modelled at a    *)
(* time, with pc holding the position of the run in its script.            *)
(*                                                                         *)
(* Numbers.  Samples are integers in hundredths (sin and cos are tabulated *)
(* as round(100*sin)).  A normalised frequency f/(fs/2) is kept exact as   *)
(* the fraction <<2*f, fs>>.  Ripple and attenuation are in tenths of dB.  *)
(* wcslib (the codecs and the channel simulator) is not part of the        *)
(* sources: its operators follow the interface contracts of the            *)
(* specification.  The numeric result of signal.iirdesign is an input of   *)
(* a run, drawn from CoefSet.                                              *)
(***************************************************************************)
EXTENDS Integers, Sequences, FiniteSets, TLC

VARIABLES prog, pc, err, data, binary, bs, xb, xt, played,
          yr, fs_arg, bp_spec, lp_spec, bp, lp,
          y_bp, yI_d, yQ_d, yI_b, yQ_b, yb, br, data_rx, trace

vars == <<prog, pc, err, data, binary, bs, xb, xt, played,
          yr, fs_arg, bp_spec, lp_spec, bp, lp,
          y_bp, yI_d, yQ_d, yI_b, yQ_b, yb, br, data_rx, trace>>

txvars == <<data, binary, bs, xb, xt, played>>
dsvars == <<fs_arg, bp_spec, lp_spec, bp, lp>>
rxvars == <<yr, y_bp, yI_d, yQ_d, yI_b, yQ_b, yb, br, data_rx>>

-----------------------------------------------------------------------------
(* parameters.py *)

fs == 36000
fc == 1800
Ac == 2

\* round(Tb*fs), the samples of one bit.  parameters.py gives 0.04*36000 =
\* 1440; the model runs with a short bit.
SamplesPerBit == 2

\* transmitter.py: np.zeros(24, dtype=int)
TrailingZeros == 24

-----------------------------------------------------------------------------
(* Bounds of the inputs *)

\* longest message, in characters
MaxMsgLen == 2
\* longest capture of the receiver, in samples: int(T/dt)
MaxCapture == 2
\* largest additive disturbance of the simulated channel
MaxNoise == 1
\* the fixed detection threshold of the signal-presence gate (hundredths)
DetectionThreshold == 1

\* '0', '1', 'H'
Chars == {48, 49, 72}
\* "Hello World!"
HelloWorld == <<72, 101, 108, 108, 111, 32, 87, 111, 114, 108, 100, 33>>
\* the value of args.message when no message is given
None == <<-1>>

SeqsUpTo(S, n) == UNION {[1..k -> S] : k \in 0..n}

Messages == SeqsUpTo(Chars, MaxMsgLen)
SampleValues == {-1, 0, 1}
Captures == SeqsUpTo(SampleValues, MaxCapture)
\* sample rates handed to filters.design_*_filter
FsSet == {-8000, 3000, 3900, 6000, 8000, fs, 44100}

\* the (b, a) pairs signal.iirdesign may return (a[0] normalised to 1)
CoefSet == {[b |-> <<1, 1>>, a |-> <<1, 0>>], [b |-> <<1, 0>>, a |-> <<1, 1>>]}
NoCoef == [b |-> <<>>, a |-> <<>>]
NoSpec == [wp |-> <<>>, ws |-> <<>>, gpass |-> 0, gstop |-> 0, ftype |-> "none"]

Zeros(n) == [i \in 1..n |-> 0]
Abs(x) == IF x < 0 THEN -x ELSE x

Event(op, c, k) == [op |-> op, b |-> c.b, a |-> c.a, k |-> k]

-----------------------------------------------------------------------------
(* wcslib: the text codec *)

Bit(c, i) == (c \div (2 ^ (8 - i))) % 2

RECURSIVE encode_string(_)
encode_string(s) ==
    IF s = <<>> THEN <<>>
    ELSE [i \in 1..8 |-> Bit(Head(s), i)] \o encode_string(Tail(s))

Byte(bits, k) ==
    LET v(i) == bits[8 * (k - 1) + i]
    IN  128 * v(1) + 64 * v(2) + 32 * v(3) + 16 * v(4)
          + 8 * v(5) + 4 * v(6) + 2 * v(7) + v(8)

\* whole bytes only; zero bytes (the trailing pad) carry no character
decode_string(bits) ==
    LET all == [k \in 1..(Len(bits) \div 8) |-> Byte(bits, k)]
    IN  SelectSeq(all, LAMBDA c : c # 0)

(* wcslib: the baseband codec *)

\* each bit occupies SamplesPerBit samples; 1 -> 1, 0 -> 0
encode_baseband_signal(bits) ==
    [n \in 1..(Len(bits) * SamplesPerBit) |-> bits[((n - 1) \div SamplesPerBit) + 1]]

\* the bit sequences decode_baseband_signal may return
RxBits == {<<>>} \cup {encode_string(<<c>>) \o Zeros(8) : c \in Chars}

(* wcslib: the channel simulator *)
simulate_channel(x, e) == [n \in 1..Len(x) |-> x[n] + e]

-----------------------------------------------------------------------------
(* The carrier: fs/fc = 20 samples per period *)

Sin100 == <<0, 31, 59, 81, 95, 100, 95, 81, 59, 31,
            0, -31, -59, -81, -95, -100, -95, -81, -59, -31>>

Period == fs \div fc
\* 100*sin(2*pi*fc*n/fs) and 100*cos(2*pi*fc*n/fs), n counted from 0
SinC(n) == Sin100[((n % Period) * 20) \div Period + 1]
CosC(n) == Sin100[((((n % Period) * 20) \div Period + 5) % 20) + 1]

\* transmitter.py: n = arange(len(xb)); carrier = Ac*sin(2*pi*fc*n*dt); xt = xb*carrier
ModulateAdd(env) == [n \in 1..Len(env) |-> env[n] + (Ac * SinC(n - 1))]
Modulate(env) == [n \in 1..Len(env) |-> env[n] * (Ac * SinC(n - 1))]

-----------------------------------------------------------------------------
(* transmitter.py: main *)

int(c) == c - 48
IsDigit(c) == c \in 48..57

\* the bits of the message before any padding
MessageBits(d, isbin) ==
    IF isbin THEN [i \in 1..Len(d) |-> int(d[i])] ELSE encode_string(d)

Init ==
    /\ prog = "none"
    /\ pc = "idle"
    /\ err = "none"
    /\ data = <<>>
    /\ binary = FALSE
    /\ bs = <<>>
    /\ xb = <<>>
    /\ xt = <<>>
    /\ played = <<>>
    /\ yr = <<>>
    /\ fs_arg = 0
    /\ bp_spec = NoSpec
    /\ lp_spec = NoSpec
    /\ bp = NoCoef
    /\ lp = NoCoef
    /\ y_bp = <<>>
    /\ yI_d = <<>>
    /\ yQ_d = <<>>
    /\ yI_b = <<>>
    /\ yQ_b = <<>>
    /\ yb = <<>>
    /\ br = <<>>
    /\ data_rx = <<>>
    /\ trace = <<>>

\* parse_args; a missing message becomes 'Hello World!'
TxStart ==
    /\ prog = "none"
    /\ \E m \in Messages \cup {None}, isbin \in BOOLEAN :
         /\ data' = IF m = None THEN HelloWorld ELSE m
         /\ binary' = isbin
    /\ prog' = "transmitter"
    /\ pc' = "args"
    /\ UNCHANGED <<err, bs, xb, xt, played, dsvars, rxvars, trace>>

\* bs = [int(bit) for bit in data], or wcs.encode_string(data); int() of a
\* character that is no digit raises ValueError
TxBits ==
    /\ prog = "transmitter"
    /\ pc = "args"
    /\ IF binary /\ \E i \in 1..Len(data) : ~IsDigit(data[i])
       THEN /\ pc' = "fault"
            /\ err' = "ValueError"
            /\ bs' = bs
       ELSE /\ pc' = "bits"
            /\ err' = err
            /\ bs' = MessageBits(data, binary)
    /\ UNCHANGED <<prog, data, binary, xb, xt, played, dsvars, rxvars, trace>>

\* bs = np.concatenate([bs, np.zeros(24)])
TxPad ==
    /\ prog = "transmitter"
    /\ pc = "bits"
    /\ bs' = bs \o Zeros(TrailingZeros)
    /\ pc' = "padded"
    /\ UNCHANGED <<prog, err, data, binary, xb, xt, played, dsvars, rxvars, trace>>

\* xb = wcs.encode_baseband_signal(bs, Tb, fs), which rejects an empty sequence
TxEncode ==
    /\ prog = "transmitter"
    /\ pc = "padded"
    /\ IF bs = <<>>
       THEN /\ pc' = "fault"
            /\ err' = "EmptyBitSequence"
            /\ xb' = xb
            /\ trace' = trace
       ELSE /\ pc' = "encoded"
            /\ err' = err
            /\ xb' = encode_baseband_signal(bs)
            /\ trace' = Append(trace, Event("encode_baseband_signal", NoCoef, Len(bs)))
    /\ UNCHANGED <<prog, data, binary, bs, xt, played, dsvars, rxvars>>

\* xt = xb * carrier
TxModulate ==
    /\ prog = "transmitter"
    /\ pc = "encoded"
    /\ xt' = Modulate(xb)
    /\ pc' = "modulated"
    /\ trace' = Append(trace, Event("modulate", NoCoef, Len(xb)))
    /\ UNCHANGED <<prog, err, data, binary, bs, xb, played, dsvars, rxvars>>

\* xt = np.stack((xt, zeros), axis=1); sd.play(xt, 1/dt, blocking=True):
\* played is the first channel
TxPlay ==
    /\ prog = "transmitter"
    /\ pc = "modulated"
    /\ played' = xt
    /\ pc' = "done"
    /\ trace' = Append(trace, Event("play", NoCoef, Len(xt)))
    /\ UNCHANGED <<prog, err, data, binary, bs, xb, xt, dsvars, rxvars>>

-----------------------------------------------------------------------------
(* Filter specifications and signal.iirdesign *)

\* f/nyq with nyq = fs/2.0, as an exact fraction
Edge(f, rate) == <<2 * f, rate>>
\* x < y for fractions with denominators of one sign
Lt(x, y) == x[1] * y[2] < y[1] * x[2]
InUnit(e) ==
    \/ e[2] > 0 /\ 0 < e[1] /\ e[1] < e[2]
    \/ e[2] < 0 /\ e[2] < e[1] /\ e[1] < 0

\* passband strictly inside the stopband, every edge inside (0,1)
ValidSpec(s) ==
    /\ \A i \in 1..Len(s.wp) : InUnit(s.wp[i])
    /\ \A i \in 1..Len(s.ws) : InUnit(s.ws[i])
    /\ IF Len(s.wp) = 2
       THEN Lt(s.ws[1], s.wp[1]) /\ Lt(s.wp[1], s.wp[2]) /\ Lt(s.wp[2], s.ws[2])
       ELSE Lt(s.wp[1], s.ws[1])

\* the designer: coefficients c for a consistent specification,
\* InvalidSpecification and no coefficients otherwise
iirdesign(s, c) ==
    IF ValidSpec(s) THEN [ok |-> TRUE, coef |-> c] ELSE [ok |-> FALSE, coef |-> NoCoef]

\* a designer that clamps an edge at or above Nyquist to just below it
ClampEdge(e) == IF e[1] >= e[2] THEN <<e[2] - 1, e[2]>> ELSE e
BandpassSpecClamped(rate) ==
    [wp |-> <<ClampEdge(Edge(1725, rate)), ClampEdge(Edge(1875, rate))>>,
     ws |-> <<ClampEdge(Edge(1650, rate)), ClampEdge(Edge(1950, rate))>>,
     gpass |-> 5, gstop |-> 400, ftype |-> "cheby1"]

\* filters.py: design_bandpass_filter, the arguments of iirdesign
BandpassSpec(rate) ==
    [wp |-> <<Edge(1725, rate), Edge(1875, rate)>>,
     ws |-> <<Edge(1650, rate), Edge(1950, rate)>>,
     gpass |-> 5, gstop |-> 400, ftype |-> "cheby1"]

\* a lowpass specification with its stopband edge moved to 2*fc
LowpassSpecMoved(rate) ==
    [wp |-> <<Edge(100, rate)>>, ws |-> <<Edge(3600, rate)>>,
     gpass |-> 10, gstop |-> 400, ftype |-> "butter"]

\* filters.py: design_lowpass_filter, the arguments of iirdesign
LowpassSpec(rate) ==
    [wp |-> <<Edge(100, rate)>>, ws |-> <<Edge(3000, rate)>>,
     gpass |-> 10, gstop |-> 400, ftype |-> "butter"]

design_bandpass_filter(rate, c) == iirdesign(BandpassSpec(rate), c)
design_lowpass_filter(rate, c) == iirdesign(LowpassSpec(rate), c)

\* receiver.py: the inline bandpass specification
RxBandpassSpec ==
    [wp |-> <<Edge(1725, fs), Edge(1875, fs)>>,
     ws |-> <<Edge(1650, fs), Edge(1950, fs)>>,
     gpass |-> 10, gstop |-> 200, ftype |-> "cheby1"]

\* receiver.py: the inline lowpass specification
RxLowpassSpec ==
    [wp |-> <<Edge(150, fs)>>, ws |-> <<Edge(3000, fs)>>,
     gpass |-> 10, gstop |-> 300, ftype |-> "butter"]

-----------------------------------------------------------------------------
(* The receive chain *)

\* sum of c[k+1]*x[n-k] over the taps k >= from that reach into x
RECURSIVE Taps(_, _, _, _)
Taps(c, x, n, k) ==
    IF k >= Len(c) \/ n - k < 1 THEN 0
    ELSE c[k + 1] * x[n - k] + Taps(c, x, n, k + 1)

\* signal.lfilter(b, a, x): a[0]*y[n] = sum b[k]*x[n-k] - sum a[k]*y[n-k],
\* zero initial state, a[0] = 1
RECURSIVE lfilter(_, _)
lfilter(c, x) ==
    IF x = <<>> THEN <<>>
    ELSE LET n == Len(x)
             prev == lfilter(c, SubSeq(x, 1, n - 1))
         IN  Append(prev, Taps(c.b, x, n, 0) - Taps(c.a, Append(prev, 0), n, 1))

\* yI_d = gain*y_bp*cos(2*pi*fc*t), yQ_d = gain*y_bp*sin(2*pi*fc*t), t = n*dt
MixI(y, gain) == [n \in 1..Len(y) |-> gain * y[n] * CosC(n - 1)]
MixQ(y, gain) == [n \in 1..Len(y) |-> gain * y[n] * SinC(n - 1)]

\* yb = yI_b + 1j*yQ_b
Complex(i, q) == [n \in 1..Len(i) |-> <<i[n], q[n]>>]

\* |z| < t for z = <<re, im>>
MagBelow(z, t) ==
    /\ Abs(z[1]) < t
    /\ Abs(z[2]) < t
    /\ z[1] * z[1] + z[2] * z[2] < t * t

\* max|y| < t over the whole record
PeakBelow(y, t) == \A n \in 1..Len(y) : MagBelow(y[n], t)

DecodeFailure == <<-1>>

-----------------------------------------------------------------------------
(* filters.py called on its own *)

FiltersBandpass ==
    /\ prog = "none"
    /\ \E rate \in FsSet, c \in CoefSet :
         LET r == design_bandpass_filter(rate, c)
         IN  /\ fs_arg' = rate
             /\ bp_spec' = BandpassSpec(rate)
             /\ bp' = r.coef
             /\ pc' = IF r.ok THEN "returned" ELSE "fault"
             /\ err' = IF r.ok THEN err ELSE "InvalidSpecification"
             /\ trace' = Append(trace, Event("design_bandpass", r.coef, 0))
    /\ prog' = "design_bandpass_filter"
    /\ UNCHANGED <<txvars, lp_spec, lp, rxvars>>

FiltersLowpass ==
    /\ prog = "none"
    /\ \E rate \in FsSet, c \in CoefSet :
         LET r == design_lowpass_filter(rate, c)
         IN  /\ fs_arg' = rate
             /\ lp_spec' = LowpassSpec(rate)
             /\ lp' = r.coef
             /\ pc' = IF r.ok THEN "returned" ELSE "fault"
             /\ err' = IF r.ok THEN err ELSE "InvalidSpecification"
             /\ trace' = Append(trace, Event("design_lowpass", r.coef, 0))
    /\ prog' = "design_lowpass_filter"
    /\ UNCHANGED <<txvars, bp_spec, bp, rxvars>>

-----------------------------------------------------------------------------
(* receiver.py: main *)

\* yr = sd.rec(int(T/dt), ...)[:, 0]
RxStart ==
    /\ prog = "none"
    /\ \E y \in Captures : yr' = y
    /\ prog' = "receiver"
    /\ pc' = "captured"
    /\ trace' = Append(trace, Event("capture", NoCoef, 0))
    /\ UNCHANGED <<err, txvars, dsvars, y_bp, yI_d, yQ_d, yI_b, yQ_b, yb, br, data_rx>>

\* b_bp, a_bp = signal.iirdesign(Wp_bp, Ws_bp, Rp_bp, Rs_bp, ftype='cheby1')
RxDesignBandpass ==
    /\ prog = "receiver"
    /\ pc = "captured"
    /\ \E c \in CoefSet :
         LET r == iirdesign(RxBandpassSpec, c)
         IN  /\ bp_spec' = RxBandpassSpec
             /\ bp' = r.coef
             /\ pc' = IF r.ok THEN "bp_designed" ELSE "fault"
             /\ err' = IF r.ok THEN err ELSE "InvalidSpecification"
             /\ trace' = Append(trace, Event("design_bandpass", r.coef, 0))
    /\ UNCHANGED <<prog, txvars, fs_arg, lp_spec, lp, rxvars>>

\* y_bp = signal.lfilter(b_bp, a_bp, yr)
RxBandpass ==
    /\ prog = "receiver"
    /\ pc = "bp_designed"
    /\ y_bp' = lfilter(bp, yr)
    /\ pc' = "bandpassed"
    /\ trace' = Append(trace, Event("bandpass", bp, Len(yr)))
    /\ UNCHANGED <<prog, err, txvars, dsvars, yr, yI_d, yQ_d, yI_b, yQ_b, yb, br, data_rx>>

\* yI_d = 2.0*y_bp*cos_c; yQ_d = 2.0*y_bp*sin_c
RxMix ==
    /\ prog = "receiver"
    /\ pc = "bandpassed"
    /\ yI_d' = MixI(y_bp, 2)
    /\ yQ_d' = MixQ(y_bp, 2)
    /\ pc' = "mixed"
    /\ trace' = Append(trace, Event("mix", NoCoef, 2))
    /\ UNCHANGED <<prog, err, txvars, dsvars, yr, y_bp, yI_b, yQ_b, yb, br, data_rx>>

\* b_lp, a_lp = signal.iirdesign(Wp_lp, Ws_lp, Rp_lp, Rs_lp, ftype='butter')
RxDesignLowpass ==
    /\ prog = "receiver"
    /\ pc = "mixed"
    /\ \E c \in CoefSet :
         LET r == iirdesign(RxLowpassSpec, c)
         IN  /\ lp_spec' = RxLowpassSpec
             /\ lp' = r.coef
             /\ pc' = IF r.ok THEN "lp_designed" ELSE "fault"
             /\ err' = IF r.ok THEN err ELSE "InvalidSpecification"
             /\ trace' = Append(trace, Event("design_lowpass", r.coef, 0))
    /\ UNCHANGED <<prog, txvars, fs_arg, bp_spec, bp, rxvars>>

\* the coefficients handed to lfilter for the I and for the Q branch
RxCoefI == lp
RxCoefQWrong == bp
RxCoefQ == lp

\* yI_b = signal.lfilter(b_lp, a_lp, yI_d)
RxLowpassI ==
    /\ prog = "receiver"
    /\ pc = "lp_designed"
    /\ yI_b' = lfilter(RxCoefI, yI_d)
    /\ pc' = "lowpassed_I"
    /\ trace' = Append(trace, Event("lowpass_I", RxCoefI, Len(yI_d)))
    /\ UNCHANGED <<prog, err, txvars, dsvars, yr, y_bp, yI_d, yQ_d, yQ_b, yb, br, data_rx>>

\* yQ_b = signal.lfilter(b_lp, a_lp, yQ_d)
RxLowpassQ ==
    /\ prog = "receiver"
    /\ pc = "lowpassed_I"
    /\ yQ_b' = lfilter(RxCoefQ, yQ_d)
    /\ pc' = "lowpassed_Q"
    /\ trace' = Append(trace, Event("lowpass_Q", RxCoefQ, Len(yQ_d)))
    /\ UNCHANGED <<prog, err, txvars, dsvars, yr, y_bp, yI_d, yQ_d, yI_b, yb, br, data_rx>>

\* yb = yI_b + 1j*yQ_b
RxComplex ==
    /\ prog = "receiver"
    /\ pc = "lowpassed_Q"
    /\ yb' = Complex(yI_b, yQ_b)
    /\ pc' = "baseband"
    /\ trace' = Append(trace, Event("complex", NoCoef, Len(yI_b)))
    /\ UNCHANGED <<prog, err, txvars, dsvars, yr, y_bp, yI_d, yQ_d, yI_b, yQ_b, br, data_rx>>

\* br = wcs.decode_baseband_signal(yb, Tb, fs): some bit sequence, or a
\* failure raised by the decoder, which nothing in main catches
RxDecodeBaseband ==
    /\ prog = "receiver"
    /\ pc = "baseband"
    /\ \E r \in RxBits \cup {DecodeFailure} :
         /\ br' = IF r = DecodeFailure THEN br ELSE r
         /\ pc' = IF r = DecodeFailure THEN "fault" ELSE "rx_bits"
         /\ err' = IF r = DecodeFailure THEN "DecodeFailure" ELSE err
    /\ trace' = Append(trace, Event("decode_baseband_signal", NoCoef, Len(yb)))
    /\ UNCHANGED <<prog, txvars, dsvars, yr, y_bp, yI_d, yQ_d, yI_b, yQ_b, yb, data_rx>>

\* data_rx = wcs.decode_string(br)
RxDecodeString ==
    /\ prog = "receiver"
    /\ pc = "rx_bits"
    /\ \E fails \in BOOLEAN :
         /\ data_rx' = IF fails THEN data_rx ELSE decode_string(br)
         /\ pc' = IF fails THEN "fault" ELSE "text"
         /\ err' = IF fails THEN "DecodeFailure" ELSE err
    /\ trace' = Append(trace, Event("decode_string", NoCoef, Len(br)))
    /\ UNCHANGED <<prog, txvars, dsvars, yr, y_bp, yI_d, yQ_d, yI_b, yQ_b, yb, br>>

\* print(f'Received: {data_rx} (no of bits: {len(br)}).')
RxPrint ==
    /\ prog = "receiver"
    /\ pc = "text"
    /\ pc' = "printed"
    /\ trace' = Append(trace, Event("print_received", NoCoef, Len(br)))
    /\ UNCHANGED <<prog, err, txvars, dsvars, rxvars>>

\* fig_bp = plot_bandpass_filter(b_bp, a_bp, n_bp, fs); savefig
RxPlotBandpass ==
    /\ prog = "receiver"
    /\ pc = "printed"
    /\ pc' = "bp_plotted"
    /\ trace' = Append(trace, Event("plot_bandpass", bp, Len(bp.a) - 1))
    /\ UNCHANGED <<prog, err, txvars, dsvars, rxvars>>

\* fig_lp = plot_lowpass_filter(b_lp, a_lp, n_lp, f_lp, fs); savefig; print
RxPlotLowpass ==
    /\ prog = "receiver"
    /\ pc = "bp_plotted"
    /\ pc' = "done"
    /\ trace' = Append(trace, Event("plot_lowpass", lp, Len(lp.a) - 1))
    /\ UNCHANGED <<prog, err, txvars, dsvars, rxvars>>

-----------------------------------------------------------------------------
(* test.py: test_transmission *)

ThStart ==
    /\ prog = "none"
    /\ \E m \in Messages, isbin \in BOOLEAN :
         /\ data' = m
         /\ binary' = isbin
    /\ prog' = "test"
    /\ pc' = "args"
    /\ UNCHANGED <<err, bs, xb, xt, played, dsvars, rxvars, trace>>

\* bs = [int(bit) for bit in message], or wcs.encode_string(message); no
\* trailing zeros are appended here
ThBits ==
    /\ prog = "test"
    /\ pc = "args"
    /\ IF binary /\ \E i \in 1..Len(data) : ~IsDigit(data[i])
       THEN /\ pc' = "fault"
            /\ err' = "ValueError"
            /\ bs' = bs
       ELSE /\ pc' = "bits"
            /\ err' = err
            /\ bs' = MessageBits(data, binary)
    /\ UNCHANGED <<prog, data, binary, xb, xt, played, dsvars, rxvars, trace>>

\* xb = wcs.encode_baseband_signal(bs, Tb, fs), which rejects an empty sequence
ThEncode ==
    /\ prog = "test"
    /\ pc = "bits"
    /\ IF bs = <<>>
       THEN /\ pc' = "fault"
            /\ err' = "EmptyBitSequence"
            /\ xb' = xb
            /\ trace' = trace
       ELSE /\ pc' = "encoded"
            /\ err' = err
            /\ xb' = encode_baseband_signal(bs)
            /\ trace' = Append(trace, Event("encode_baseband_signal", NoCoef, Len(bs)))
    /\ UNCHANGED <<prog, data, binary, bs, xt, played, dsvars, rxvars>>

\* xt = xb * carrier
ThModulate ==
    /\ prog = "test"
    /\ pc = "encoded"
    /\ xt' = Modulate(xb)
    /\ pc' = "modulated"
    /\ trace' = Append(trace, Event("modulate", NoCoef, Len(xb)))
    /\ UNCHANGED <<prog, err, data, binary, bs, xb, played, dsvars, rxvars>>

\* yr = wcs.simulate_channel(xt, fs, channel_id, SNR=SNR, dmax=dmax)
ThChannel ==
    /\ prog = "test"
    /\ pc = "modulated"
    /\ \E e \in 0..MaxNoise : yr' = simulate_channel(xt, e)
    /\ pc' = "captured"
    /\ trace' = Append(trace, Event("capture", NoCoef, 0))
    /\ UNCHANGED <<prog, err, txvars, dsvars, y_bp, yI_d, yQ_d, yI_b, yQ_b, yb, br, data_rx>>

\* b_bp, a_bp = filters.design_bandpass_filter(fs)
ThDesignBandpass ==
    /\ prog = "test"
    /\ pc = "captured"
    /\ \E c \in CoefSet :
         LET r == design_bandpass_filter(fs, c)
         IN  /\ bp_spec' = BandpassSpec(fs)
             /\ bp' = r.coef
             /\ pc' = IF r.ok THEN "bp_designed" ELSE "fault"
             /\ err' = IF r.ok THEN err ELSE "InvalidSpecification"
             /\ trace' = Append(trace, Event("design_bandpass", r.coef, 0))
    /\ fs_arg' = fs
    /\ UNCHANGED <<prog, txvars, lp_spec, lp, rxvars>>

\* y_bp = signal.lfilter(b_bp, a_bp, yr)
ThBandpass ==
    /\ prog = "test"
    /\ pc = "bp_designed"
    /\ y_bp' = lfilter(bp, yr)
    /\ pc' = "bandpassed"
    /\ trace' = Append(trace, Event("bandpass", bp, Len(yr)))
    /\ UNCHANGED <<prog, err, txvars, dsvars, yr, yI_d, yQ_d, yI_b, yQ_b, yb, br, data_rx>>

\* yI_d = 2.0*y_bp*cos_c; yQ_d = 2.0*y_bp*sin_c
ThMix ==
    /\ prog = "test"
    /\ pc = "bandpassed"
    /\ yI_d' = MixI(y_bp, 2)
    /\ yQ_d' = MixQ(y_bp, 2)
    /\ pc' = "mixed"
    /\ trace' = Append(trace, Event("mix", NoCoef, 2))
    /\ UNCHANGED <<prog, err, txvars, dsvars, yr, y_bp, yI_b, yQ_b, yb, br, data_rx>>

\* b_lp, a_lp = filters.design_lowpass_filter(fs)
ThDesignLowpass ==
    /\ prog = "test"
    /\ pc = "mixed"
    /\ \E c \in CoefSet :
         LET r == design_lowpass_filter(fs, c)
         IN  /\ lp_spec' = LowpassSpec(fs)
             /\ lp' = r.coef
             /\ pc' = IF r.ok THEN "lp_designed" ELSE "fault"
             /\ err' = IF r.ok THEN err ELSE "InvalidSpecification"
             /\ trace' = Append(trace, Event("design_lowpass", r.coef, 0))
    /\ UNCHANGED <<prog, txvars, fs_arg, bp_spec, bp, rxvars>>

\* yI_b = signal.lfilter(b_lp, a_lp, yI_d)
ThLowpassI ==
    /\ prog = "test"
    /\ pc = "lp_designed"
    /\ yI_b' = lfilter(lp, yI_d)
    /\ pc' = "lowpassed_I"
    /\ trace' = Append(trace, Event("lowpass_I", lp, Len(yI_d)))
    /\ UNCHANGED <<prog, err, txvars, dsvars, yr, y_bp, yI_d, yQ_d, yQ_b, yb, br, data_rx>>

\* yQ_b = signal.lfilter(b_lp, a_lp, yQ_d)
ThLowpassQ ==
    /\ prog = "test"
    /\ pc = "lowpassed_I"
    /\ yQ_b' = lfilter(lp, yQ_d)
    /\ pc' = "lowpassed_Q"
    /\ trace' = Append(trace, Event("lowpass_Q", lp, Len(yQ_d)))
    /\ UNCHANGED <<prog, err, txvars, dsvars, yr, y_bp, yI_d, yQ_d, yI_b, yb, br, data_rx>>

\* yb = yI_b + 1j*yQ_b
ThComplex ==
    /\ prog = "test"
    /\ pc = "lowpassed_Q"
    /\ yb' = Complex(yI_b, yQ_b)
    /\ pc' = "baseband"
    /\ trace' = Append(trace, Event("complex", NoCoef, Len(yI_b)))
    /\ UNCHANGED <<prog, err, txvars, dsvars, yr, y_bp, yI_d, yQ_d, yI_b, yQ_b, br, data_rx>>

\* br = wcs.decode_baseband_signal(yb, Tb, fs)
ThDecodeBaseband ==
    /\ prog = "test"
    /\ pc = "baseband"
    /\ \E r \in RxBits \cup {DecodeFailure} :
         /\ br' = IF r = DecodeFailure THEN br ELSE r
         /\ pc' = IF r = DecodeFailure THEN "fault" ELSE "rx_bits"
         /\ err' = IF r = DecodeFailure THEN "DecodeFailure" ELSE err
    /\ trace' = Append(trace, Event("decode_baseband_signal", NoCoef, Len(yb)))
    /\ UNCHANGED <<prog, txvars, dsvars, yr, y_bp, yI_d, yQ_d, yI_b, yQ_b, yb, data_rx>>

\* data_rx = wcs.decode_string(br)
ThDecodeString ==
    /\ prog = "test"
    /\ pc = "rx_bits"
    /\ \E fails \in BOOLEAN :
         /\ data_rx' = IF fails THEN data_rx ELSE decode_string(br)
         /\ pc' = IF fails THEN "fault" ELSE "text"
         /\ err' = IF fails THEN "DecodeFailure" ELSE err
    /\ trace' = Append(trace, Event("decode_string", NoCoef, Len(br)))
    /\ UNCHANGED <<prog, txvars, dsvars, yr, y_bp, yI_d, yQ_d, yI_b, yQ_b, yb, br>>

\* print(f'Received: {data_rx}'); print(f'Number of bits: {len(br)}')
ThPrint ==
    /\ prog = "test"
    /\ pc = "text"
    /\ pc' = "printed"
    /\ trace' = Append(trace, Event("print_received", NoCoef, Len(br)))
    /\ UNCHANGED <<prog, err, txvars, dsvars, rxvars>>

\* the RESULTS block: Match is message == data_rx; bs != br[:len(bs)]
\* compares arrays whose lengths may differ, which numpy either answers with
\* a scalar or refuses with ValueError, by version
ThResults ==
    /\ prog = "test"
    /\ pc = "printed"
    /\ \E refuses \in (IF Len(br) < Len(bs) /\ Len(br) # 1 /\ Len(bs) # 1
                       THEN BOOLEAN ELSE {FALSE}) :
         /\ pc' = IF refuses THEN "fault" ELSE "done"
         /\ err' = IF refuses THEN "ValueError" ELSE err
         /\ trace' = IF refuses THEN trace
                     ELSE Append(trace, Event("match", NoCoef, IF data = data_rx THEN 1 ELSE 0))
    /\ UNCHANGED <<prog, txvars, dsvars, rxvars>>

Next ==
    \/ ThStart
    \/ ThBits
    \/ ThEncode
    \/ ThModulate
    \/ ThChannel
    \/ ThDesignBandpass
    \/ ThBandpass
    \/ ThMix
    \/ ThDesignLowpass
    \/ ThLowpassI
    \/ ThLowpassQ
    \/ ThComplex
    \/ ThDecodeBaseband
    \/ ThDecodeString
    \/ ThPrint
    \/ ThResults
    \/ FiltersBandpass
    \/ FiltersLowpass
    \/ RxStart
    \/ RxDesignBandpass
    \/ RxBandpass
    \/ RxMix
    \/ RxDesignLowpass
    \/ RxLowpassI
    \/ RxLowpassQ
    \/ RxComplex
    \/ RxDecodeBaseband
    \/ RxDecodeString
    \/ RxPrint
    \/ RxPlotBandpass
    \/ RxPlotLowpass
    \/ TxStart
    \/ TxBits
    \/ TxPad
    \/ TxEncode
    \/ TxModulate
    \/ TxPlay

Spec == Init /\ [][Next]_vars

-----------------------------------------------------------------------------
(* Reading the history of a run *)

TraceOps == [i \in 1..Len(trace) |-> trace[i].op]
Invoked(op) == \E i \in 1..Len(trace) : trace[i].op = op
Count(op) == Cardinality({i \in 1..Len(trace) : trace[i].op = op})
IsPrefix(s, t) == Len(s) <= Len(t) /\ \A i \in 1..Len(s) : s[i] = t[i]

RxStages ==
    <<"capture", "design_bandpass", "bandpass", "mix", "design_lowpass",
      "lowpass_I", "lowpass_Q", "complex", "decode_baseband_signal",
      "decode_string", "print_received", "plot_bandpass", "plot_lowpass">>
TxStages == <<"encode_baseband_signal", "modulate", "play">>

ChainStages ==
    <<"design_bandpass", "bandpass", "mix", "design_lowpass", "lowpass_I",
      "lowpass_Q", "complex", "decode_baseband_signal", "decode_string">>
ChainOps == {ChainStages[i] : i \in 1..Len(ChainStages)}
Chain == SelectSeq(TraceOps, LAMBDA op : op \in ChainOps)

Receiving == prog \in {"receiver", "test"}
Sending == prog \in {"transmitter", "test"}

-----------------------------------------------------------------------------
(* Claims *)

\* C1: the external decoders are invoked only when the peak magnitude
\* max|y_b| of the baseband of a captured record reaches the detection
\* threshold; below it (a silent capture in particular) no decoder runs and
\* the bit sequence and the text stay empty.
C1_DecodersGated ==
    (Receiving /\ yr # <<>> /\ Invoked("decode_baseband_signal"))
        => ~PeakBelow(yb, DetectionThreshold)

\* C3: on every path that generates an envelope, the bits handed to
\* encode_baseband_signal are the message bits followed by exactly 24 zeros.
C3_TrailingZerosOnEveryPath ==
    (Sending /\ Invoked("encode_baseband_signal"))
        => /\ bs = MessageBits(data, binary) \o Zeros(24)
           /\ Len(bs) = Len(MessageBits(data, binary)) + 24

\* C4: design_bandpass_filter(fs) and design_lowpass_filter(fs) fail with
\* InvalidSpecification and return no coefficients whenever an edge of the
\* specification is inconsistent, in particular for every fs with
\* 1950/(fs/2) >= 1 (bandpass) or 3000/(fs/2) >= 1 (lowpass); no edge is
\* clamped into range.
C4_InvalidSpecificationFails ==
    /\ prog = "design_bandpass_filter"
         => /\ (2 * 1950 >= fs_arg \/ ~ValidSpec(bp_spec))
                 => (pc = "fault" /\ err = "InvalidSpecification" /\ bp = NoCoef)
            /\ bp_spec.ws[2] = <<2 * 1950, fs_arg>>
    /\ prog = "design_lowpass_filter"
         => /\ (2 * 3000 >= fs_arg \/ ~ValidSpec(lp_spec))
                 => (pc = "fault" /\ err = "InvalidSpecification" /\ lp = NoCoef)
            /\ lp_spec.ws[1] = <<2 * 3000, fs_arg>>

C4_Witness ==
    /\ prog = "design_bandpass_filter"
    /\ fs_arg = 3900
    /\ pc = "fault"
    /\ bp = NoCoef

\* C5: a run of the receiver never ends in an unhandled fault; a failure
\* raised by decode_baseband_signal or decode_string is reported as received
\* text, it does not end the process.
C5_NoUnhandledFault == (prog = "receiver" /\ yr # <<>>) => pc # "fault"

\* C6: the transmit path rejects an empty bit sequence: for an empty message
\* it reports an error and neither produces nor plays a waveform; a
\* non-empty bit sequence is never rejected.
C6_EmptyBitsRejected ==
    (Sending /\ pc # "args" /\ err # "ValueError")
        => IF MessageBits(data, binary) = <<>>
           THEN xt = <<>> /\ played = <<>> /\ pc \notin {"encoded", "modulated", "done"}
           ELSE err # "EmptyBitSequence"

\* C7: with N samples per bit the waveform has len(bits)*N samples, sample
\* n belongs to bit floor(n/N), xt[n] is envelope[n] times the carrier at the
\* same index, and every sample in the span of a 0 bit is exactly zero.
C7_OnOffKeying ==
    (Sending /\ Invoked("modulate"))
        => /\ Len(xt) = Len(bs) * SamplesPerBit
           /\ \A n \in 1..Len(xt) :
                LET bit == bs[((n - 1) \div SamplesPerBit) + 1]
                IN  /\ xt[n] = xb[n] * Ac * SinC(n - 1)
                    /\ bit = 0 => xt[n] = 0
                    /\ xt[n] # 0 => bit = 1

C7_Witness ==
    /\ prog = "transmitter"
    /\ pc = "done"
    /\ \E n \in 1..Len(played) : played[n] # 0
    /\ \E i \in 1..Len(MessageBits(data, binary)) : bs[i] = 0

\* the stages of a run happen in script order, each once, each on the whole
\* output of the one before
StageOrder ==
    /\ prog = "receiver" => IsPrefix(TraceOps, RxStages)
    /\ prog = "transmitter" => IsPrefix(TraceOps, TxStages)
    /\ (Receiving /\ Invoked("bandpass")) => Len(y_bp) = Len(yr)
    /\ (Receiving /\ Invoked("mix")) => Len(yI_d) = Len(y_bp) /\ Len(yQ_d) = Len(y_bp)
    /\ (Receiving /\ Invoked("complex")) => Len(yb) = Len(yr)
    /\ (prog = "transmitter" /\ Invoked("play")) => played = xt

\* C8: capture, bandpass, I/Q mixing, lowpass of I and Q, complex baseband
\* and decoding happen in this order, each stage once and on the whole
\* record, the decoder at most once, playback only after modulation; and
\* the run always reaches completion.
C8_OrderedAndCompletes ==
    /\ StageOrder
    /\ (prog = "receiver" /\ yr # <<>>) => (pc # "fault" /\ (pc = "done" \/ ENABLED Next))

\* C9: in one receive session each filter is designed once, and the
\* coefficients applied to the capture, to I, to Q and handed to the plots
\* are the ones that design call returned, unchanged.
C9_CoefficientsDesignedOnce ==
    Receiving =>
        /\ Count("design_bandpass") <= 1
        /\ Count("design_lowpass") <= 1
        /\ \A i \in 1..Len(trace) :
             /\ trace[i].op \in {"design_bandpass", "bandpass", "plot_bandpass"}
                  => (Invoked("design_bandpass") /\ trace[i].b = bp.b /\ trace[i].a = bp.a)
             /\ trace[i].op \in {"design_lowpass", "lowpass_I", "lowpass_Q", "plot_lowpass"}
                  => (Invoked("design_lowpass") /\ trace[i].b = lp.b /\ trace[i].a = lp.a)

\* every run of the receiver that has not ended can take its next step
RxNeverStuck == prog = "receiver" => (pc \in {"done", "fault"} \/ ENABLED Next)

C9_Witness ==
    /\ prog = "receiver"
    /\ pc = "done"
    /\ Invoked("plot_lowpass")
    /\ bp # lp

SameBandpassEdges(s, t) == s.wp = t.wp /\ s.ws = t.ws /\ s.ftype = t.ftype
SameLowpassStop(s, t) == s.ws = t.ws /\ s.gpass = t.gpass /\ s.ftype = t.ftype

\* C10 as stated: the harness and the receiver run the same chain with the
\* same filter specifications (edges, Rp, Rs, family).
C10_SameSpecifications ==
    Receiving =>
        /\ IsPrefix(Chain, ChainStages)
        /\ bp_spec # NoSpec => (bp_spec = RxBandpassSpec /\ bp_spec = BandpassSpec(fs))
        /\ lp_spec # NoSpec => (lp_spec = RxLowpassSpec /\ lp_spec = LowpassSpec(fs))

\* C10 (amended): the harness and the receiver run the same stage sequence
\* with mixing factor 2, the same filter families, the same bandpass edges
\* and the same lowpass stopband edge and ripple; Rp and Rs of the bandpass
\* and the passband edge and Rs of the lowpass are not claimed equal.
C10_SameChainAndEdges ==
    Receiving =>
        /\ IsPrefix(Chain, ChainStages)
        /\ \A i \in 1..Len(trace) : trace[i].op = "mix" => trace[i].k = 2
        /\ bp_spec # NoSpec
             => (SameBandpassEdges(bp_spec, RxBandpassSpec)
                   /\ SameBandpassEdges(bp_spec, BandpassSpec(fs)))
        /\ lp_spec # NoSpec
             => (SameLowpassStop(lp_spec, RxLowpassSpec)
                   /\ SameLowpassStop(lp_spec, LowpassSpec(fs)))

C10_Witness ==
    /\ prog = "test"
    /\ Invoked("decode_string")
    /\ lp_spec = LowpassSpec(fs)
    /\ lp_spec # RxLowpassSpec

====
